---- MODULE Spec2Model ----
(***************************************************************************)
(* cwl_tes/ftp.py: the FTP-aware filesystem access object FtpFsAccess and  *)
(* the path normaliser abspath.                                            *)
(*                                                                         *)
(* Paths and URLs are TLA+ strings, taken apart character by character as  *)
(* the Python code does.  The alphabet of the inputs is lower case, has no *)
(* '?', '#', ';' and no port, so urlparse's query, fragment, params and    *)
(* port handling and its lower-casing of scheme and host never apply.      *)
(* Python's None is the value None below; "{}".format(None) is "None".     *)
(***************************************************************************)
EXTENDS Integers, Sequences, FiniteSets, TLC

VARIABLES basedir, netrc, cache, conns, rdirs, tmpfiles, handles, threads, last

vars == <<basedir, netrc, cache, conns, rdirs, tmpfiles, handles, threads, last>>

\* what a call leaves in last: the operation and its argument, what it
\* returned or raised, the network operations and the transfers it made, and
\* whether the call's fault hit one of those operations
Called(op, fn, out, f) ==
    [op |-> op, fn |-> fn, r |-> out.r, exc |-> out.exc,
     k |-> out.w.k, xfer |-> out.w.xfer, faulty |-> (f.at # 0 /\ f.at <= out.w.k)]

(***************************************************************************)
(* Bounds of the model.                                                    *)
(***************************************************************************)
\* connections opened over the life of the adapter
MaxConns == 2
\* position, among the network operations of one call, of the one that fails
MaxFault == 4

\* directories created on the servers during a run
MaxDirs == 2
\* temporary files that exist at one time
MaxTmp == 2
\* position of the failing network operation in a glob that lists directories
MaxDeep == 11
\* threads that share the adapter
MaxThreads == 2

(***************************************************************************)
(* Python values and string primitives.                                    *)
(***************************************************************************)
None == "<None>"

Falsy(x) == x = None \/ x = ""

\* "{}".format(x)
Str(x) == IF x = None THEN "None" ELSE x

Ch(s, i) == SubSeq(s, i, i)

StartsWith(s, p) == Len(s) >= Len(p) /\ SubSeq(s, 1, Len(p)) = p

EndsWith(s, p) == Len(s) >= Len(p) /\ SubSeq(s, Len(s) - Len(p) + 1, Len(s)) = p

\* s.find(c) + 1 for a one-character c, searched from position from: 0 when absent
FindFrom(s, c, from) ==
    LET hits == {i \in from..Len(s) : Ch(s, i) = c}
    IN  IF hits = {} THEN 0 ELSE CHOOSE i \in hits : \A j \in hits : i <= j

Find(s, c) == FindFrom(s, c, 1)

\* s.rfind(c) + 1
RFind(s, c) ==
    LET hits == {i \in 1..Len(s) : Ch(s, i) = c}
    IN  IF hits = {} THEN 0 ELSE CHOOSE i \in hits : \A j \in hits : i >= j

Letters ==
    {"a", "b", "c", "d", "e", "f", "g", "h", "i", "j", "k", "l", "m",
     "n", "o", "p", "q", "r", "s", "t", "u", "v", "w", "x", "y", "z"}

\* urllib.parse.scheme_chars
SchemeChars == Letters \cup {"0", "1", "2", "3", "4", "5", "6", "7", "8", "9"} \cup {"+", "-", "."}

\* s.split('/') with the empty pieces dropped
RECURSIVE Segments(_)
Segments(s) ==
    IF s = "" THEN <<>>
    ELSE LET i == Find(s, "/")
         IN  IF i = 0 THEN <<s>>
             ELSE IF i = 1 THEN Segments(SubSeq(s, 2, Len(s)))
             ELSE <<SubSeq(s, 1, i - 1)>> \o Segments(SubSeq(s, i + 1, Len(s)))

\* "/".join(segs)
RECURSIVE JoinSlash(_)
JoinSlash(segs) ==
    IF segs = <<>> THEN ""
    ELSE IF Len(segs) = 1 THEN segs[1]
    ELSE segs[1] \o "/" \o JoinSlash(Tail(segs))

(***************************************************************************)
(* urllib.parse.urlparse: scheme, netloc (username, password, hostname)    *)
(* and path.                                                               *)
(***************************************************************************)
\* Each step takes what the steps before it computed as parameters.
\* the position of the ':' that ends the scheme, 0 when url has no scheme
SchemeEnd(url, i) ==
    IF /\ i > 1
       /\ Ch(url, 1) \in Letters
       /\ \A j \in 1..(i - 1) : Ch(url, j) \in SchemeChars
    THEN i ELSE 0

\* the position that ends the netloc of rest, 0 when rest has no netloc
NetlocEnd(rest, e) ==
    IF ~StartsWith(rest, "//") THEN 0
    ELSE IF e = 0 THEN Len(rest) + 1 ELSE e

\* username and password of the userinfo before the '@'
UserInfo(userinfo, colon) ==
    [username |-> IF colon = 0 THEN userinfo ELSE SubSeq(userinfo, 1, colon - 1),
     password |-> IF colon = 0 THEN None ELSE SubSeq(userinfo, colon + 1, Len(userinfo))]

NetlocParts(netloc, at) ==
    (IF at = 0 THEN [username |-> None, password |-> None]
     ELSE UserInfo(SubSeq(netloc, 1, at - 1), Find(SubSeq(netloc, 1, at - 1), ":")))
    @@ [hostname |-> IF at = Len(netloc) THEN None
                     ELSE SubSeq(netloc, at + 1, Len(netloc))]

UrlRest(scheme, rest, e) ==
    [scheme |-> scheme,
     path   |-> IF e = 0 THEN rest ELSE SubSeq(rest, e, Len(rest))]
    @@ NetlocParts(SubSeq(rest, 3, e - 1), RFind(SubSeq(rest, 3, e - 1), "@"))

UrlScheme(url, i) ==
    UrlRest(SubSeq(url, 1, i - 1), SubSeq(url, i + 1, Len(url)),
            NetlocEnd(SubSeq(url, i + 1, Len(url)),
                      FindFrom(SubSeq(url, i + 1, Len(url)), "/", 3)))

urlparse(url) == UrlScheme(url, SchemeEnd(url, Find(url, ":")))

(***************************************************************************)
(* abspath and what it calls.                                              *)
(***************************************************************************)
\* urllib.parse.unquote, for the escapes the inputs use
RECURSIVE unquote(_)
unquote(s) ==
    LET i == Find(s, "%")
    IN  IF i = 0 \/ i + 2 > Len(s) THEN s
        ELSE LET code == SubSeq(s, i + 1, i + 2)
                 dec  == IF code = "20" THEN " "
                         ELSE IF code = "25" THEN "%"
                         ELSE "%" \o code
             IN  SubSeq(s, 1, i - 1) \o dec \o unquote(SubSeq(s, i + 3, Len(s)))

\* schema_salad.ref_resolver.uri_file_path of a file: URI
uri_file_path(url) == unquote(urlparse(url).path)

\* os.path.isabs
isabs(p) == StartsWith(p, "/")

\* os.path.join of two components
os_path_join(a, b) ==
    IF isabs(b) THEN b
    ELSE IF a = "" \/ EndsWith(a, "/") THEN a \o b
    ELSE a \o "/" \o b

abspath(src, bdir) ==
    LET scheme == urlparse(src).scheme
    IN  IF scheme = "file" THEN uri_file_path(src)
        ELSE IF scheme # "" THEN src
        ELSE IF StartsWith(bdir, "file://")
             THEN (IF isabs(src) THEN src ELSE bdir \o "/" \o src)
             ELSE (IF isabs(src) THEN src ELSE os_path_join(bdir, src))

(***************************************************************************)
(* The remote side: the FTP servers the adapter talks to.  Every host      *)
(* serves the same initial tree.  A login lands in "/".                    *)
(***************************************************************************)
Hosts == {"h1", "h2"}

\* accounts the servers accept besides anonymous
Accounts == {<<"u1", "p1">>, <<"nu", "np">>}

RemoteFiles == <<"/f", "/d/.hidden", "/d/a.txt", "/d/b.txt", "/e/a.txt">>

InitialDirs == <<"/", "/d", "/e">>

RemoteSizes == [p \in {RemoteFiles[i] : i \in 1..Len(RemoteFiles)} |-> Len(p)]

Range(seq) == {seq[i] : i \in 1..Len(seq)}

\* p is a directory of host h
IsRemoteDir(w, h, p) == [host |-> h, path |-> p] \in Range(w.rdirs)

IsRemoteFile(h, p) == h \in Hosts /\ p \in Range(RemoteFiles)

\* the path an FTP command's argument names on a connection whose working
\* directory is cwd: absolute or relative, "." and empty segments dropped
Resolve(cwd, arg) ==
    LET segs == IF isabs(arg) THEN Segments(arg) ELSE Segments(cwd) \o Segments(arg)
    IN  "/" \o JoinSlash(SelectSeq(segs, LAMBDA x : x # "."))

ParentOf(p) ==
    LET segs == Segments(p)
    IN  IF segs = <<>> THEN "/" ELSE "/" \o JoinSlash(SubSeq(segs, 1, Len(segs) - 1))

(***************************************************************************)
(* One call's view of the world.  A call threads the record w through the  *)
(* methods it invokes: cache is self.cache as a list of (key, handle) in   *)
(* insertion order, conns the control connections opened so far, k the     *)
(* number of network operations the call has made, xfer the pycurl         *)
(* transfers it attempted.  The call's fault f names the network operation *)
(* that fails (f.at, 0 for none); f.empty makes a failing PWD answer with  *)
(* a reply ftplib's pwd() turns into '' instead of raising.                *)
(***************************************************************************)
NoExc == ""

\* a member of ftplib.all_errors: ftplib.Error, OSError, EOFError
AllErrors == "ftplib.all_errors"

Faults == {[at |-> 0, empty |-> FALSE]} \cup [at : 1..MaxFault, empty : BOOLEAN]

\* a call in which no network operation fails
NoFault == [at |-> 0, empty |-> FALSE]

\* the faults that differ for a call of at most k network operations
FaultsUpTo(k) == {f \in Faults : f.at <= k}

\* no fault, or one of the first k network operations of a call raising
Raising(k) == {[at |-> i, empty |-> FALSE] : i \in 0..k}

Tick(w) == [w EXCEPT !.k = @ + 1]

\* the network operation about to be made is the one that fails
Failing(w, f) == f.at = w.k + 1

Ret(w, r, exc) == [w |-> w, r |-> r, exc |-> exc]

CacheIdx(c, host, user, passwd) ==
    LET hits == {i \in 1..Len(c) :
                    c[i].host = host /\ c[i].user = user /\ c[i].passwd = passwd}
    IN  IF hits = {} THEN 0 ELSE CHOOSE i \in hits : TRUE

\* netrc.netrc.authenticators(host): the host's entry, or None (found is FALSE)
authenticators(n, host) ==
    LET hits == {e \in n : e.host = host}
    IN  IF hits = {} THEN [found |-> FALSE, login |-> None, password |-> None]
        ELSE LET e == CHOOSE e \in hits : TRUE
             IN  [found |-> TRUE, login |-> e.login, password |-> e.password]

\* the loop of lines 110-112 without the comparison of the hosts
_recall_credentials_of_any_host(c, desired_host) ==
    IF c = <<>> THEN <<None, None>> ELSE <<c[1].user, c[1].passwd>>

_recall_credentials(c, desired_host) ==
    LET hits == {i \in 1..Len(c) : c[i].host = desired_host}
    IN  IF hits = {} THEN <<None, None>>
        ELSE LET i == CHOOSE i \in hits : \A j \in hits : i <= j
             IN  <<c[i].user, c[i].passwd>>

\* lines 82-87: the cache, then the anonymous defaults
ParseFallback(parse, user, passwd, rec) ==
    [host   |-> parse.hostname,
     user   |-> IF ~Falsy(user) THEN user
                ELSE IF rec[2] = None /\ rec[1] = None THEN "anonymous" ELSE rec[1],
     passwd |-> IF ~Falsy(user) THEN passwd
                ELSE IF rec[2] = None THEN "anonymous@" ELSE rec[2],
     path   |-> parse.path]

\* lines 77-81 with the test of the embedded user name left out
ParseNetrc_netrc_first(n, c, parse, creds) ==
    ParseFallback(parse,
                  IF parse.scheme = "ftp" /\ creds.found
                  THEN creds.login ELSE parse.username,
                  IF parse.scheme = "ftp" /\ creds.found
                  THEN creds.password ELSE parse.password,
                  _recall_credentials(c, parse.hostname))

\* lines 77-81: the credential file, for an ftp URL that embeds no user name
ParseNetrc(n, c, parse, creds) ==
    ParseFallback(parse,
                  IF parse.scheme = "ftp" /\ Falsy(parse.username) /\ creds.found
                  THEN creds.login ELSE parse.username,
                  IF parse.scheme = "ftp" /\ Falsy(parse.username) /\ creds.found
                  THEN creds.password ELSE parse.password,
                  _recall_credentials(c, parse.hostname))

ParseParsed(n, c, parse) == ParseNetrc(n, c, parse, authenticators(n, parse.hostname))

\* self.netrc is n (the empty set when there is no .netrc), self.cache is c
_parse_url(n, c, url) == ParseParsed(n, c, urlparse(url))

\* the working directory a server gives a session at login
LoginDir(host) == IF host = "h2" THEN "/e" ELSE "/"

\* ftplib.FTP.login's defaults, then the server's verdict
LoginAccepted(user, passwd) ==
    LET u == IF Falsy(user) THEN "anonymous" ELSE user
        p == IF Falsy(passwd) THEN "" ELSE passwd
    IN  u = "anonymous" \/ <<u, p>> \in Accounts

(***************************************************************************)
(* _connect.  The result r is the handle (an index of conns), 0 for None;  *)
(* probe tells what the liveness probe of line 96 did.                     *)
(***************************************************************************)
ConnectRet(w, r, exc, probe) == Ret(w, r, exc) @@ [probe |-> probe]

\* line 102 adding an entry beside the one the key already has
CacheStore_appending(c, at, pu, ftp) ==
    Append(c, [host |-> pu.host, user |-> pu.user, passwd |-> pu.passwd, ftp |-> ftp])

\* line 102: self.cache[(host, user, passwd)] = ftp
CacheStore(c, at, pu, ftp) ==
    IF at # 0 THEN [c EXCEPT ![at].ftp = ftp]
    ELSE Append(c, [host |-> pu.host, user |-> pu.user, passwd |-> pu.passwd, ftp |-> ftp])

\* line 102 placed before line 101: the cache entry, then ftp.login
ConnectLogin_store_first(w, pu, at, probe, f) ==
    IF Failing(w, f) \/ ~LoginAccepted(pu.user, pu.passwd)
    THEN ConnectRet([Tick(w) EXCEPT !.cache = CacheStore(@, at, pu, Len(w.conns))],
                    0, AllErrors, probe)
    ELSE ConnectRet([Tick(w) EXCEPT !.conns[Len(w.conns)].auth = TRUE,
                                    !.cache = CacheStore(@, at, pu, Len(w.conns))],
                    Len(w.conns), NoExc, probe)

\* lines 101-103: ftp.login, then the cache entry
ConnectLogin(w, pu, at, probe, f) ==
    IF Failing(w, f) \/ ~LoginAccepted(pu.user, pu.passwd)
    THEN ConnectRet(Tick(w), 0, AllErrors, probe)
    ELSE ConnectRet([Tick(w) EXCEPT !.conns[Len(w.conns)].auth = TRUE,
                                    !.cache = CacheStore(@, at, pu, Len(w.conns))],
                    Len(w.conns), NoExc, probe)

\* lines 98-100: ftplib.FTP_TLS() and ftp.connect(host)
ConnectOpen(w, pu, at, probe, f) ==
    IF Failing(w, f) \/ pu.host \notin Hosts
    THEN ConnectRet(Tick(w), 0, AllErrors, probe)
    ELSE ConnectLogin([Tick(w) EXCEPT !.conns =
                           Append(@, [host |-> pu.host, user |-> pu.user,
                                      auth |-> FALSE, cwd |-> LoginDir(pu.host)])],
                      pu, at, probe, f)

\* lines 95-97: the cached handle, when its pwd() answers
ConnectCached(w, pu, at, f) ==
    IF at = 0 THEN ConnectOpen(w, pu, at, "none", f)
    ELSE IF ~Failing(w, f) THEN ConnectRet(Tick(w), w.cache[at].ftp, NoExc, "ok")
    ELSE IF f.empty THEN ConnectOpen(Tick(w), pu, at, "empty", f)
    ELSE ConnectRet(Tick(w), 0, AllErrors, "raise")

ConnectParsed(w, pu, f) ==
    ConnectCached(w, pu, CacheIdx(w.cache, pu.host, pu.user, pu.passwd), f)

_connect(w, n, url, f) ==
    IF urlparse(url).scheme # "ftp" THEN ConnectRet(w, 0, NoExc, "none")
    ELSE ConnectParsed(w, _parse_url(n, w.cache, url), f)

(***************************************************************************)
(* The local filesystem and cwltool's StdFsAccess, which FtpFsAccess       *)
(* extends and calls through super().                                      *)
(***************************************************************************)
LocalFiles == <<"/tmp/x", "/tmp/.y">>

LocalDirs == {"/", "/tmp"}

\* exists, and is neither a regular file nor a directory
LocalOther == {"/tmp/s"}

LocalEntries == LocalFiles \o <<"/tmp/s">>

TypeError == "TypeError"

std_exists(b, fn) == abspath(fn, b) \in Range(LocalFiles) \cup LocalDirs \cup LocalOther

std_isfile(b, fn) == abspath(fn, b) \in Range(LocalFiles)

std_isdir(b, fn) == abspath(fn, b) \in LocalDirs

\* os.stat(self._abs(fn)).st_size
std_size(w, b, fn) ==
    IF std_exists(b, fn) THEN Ret(w, Len(abspath(fn, b)), NoExc)
    ELSE Ret(w, 0, AllErrors)

\* the last component of a path
BaseName(p) == SubSeq(p, RFind(p, "/") + 1, Len(p))

\* the names in local directory d, in os.listdir's order
LocalNames(d) ==
    LET kept == SelectSeq(LocalEntries, LAMBDA e : ParentOf(e) = d)
    IN  [i \in 1..Len(kept) |-> BaseName(kept[i])]

\* [abspath(quote(l), fn) for l in os.listdir(self._abs(fn))]: no name here needs quoting
std_listdir(w, b, fn) ==
    IF fn = None THEN Ret(w, <<>>, TypeError)
    ELSE IF ~std_isdir(b, fn) THEN Ret(w, <<>>, AllErrors)
    ELSE Ret(w, [i \in 1..Len(LocalNames(abspath(fn, b))) |->
                    abspath(LocalNames(abspath(fn, b))[i], fn)], NoExc)

\* glob.has_magic
has_magic(s) == \E i \in 1..Len(s) : Ch(s, i) \in {"*", "?", "["}

\* fnmatch.fnmatchcase for patterns of literals, '*' and '?'
RECURSIVE fnmatchcase(_, _)
fnmatchcase(name, pat) ==
    IF pat = "" THEN name = ""
    ELSE IF Ch(pat, 1) = "*"
         THEN fnmatchcase(name, Tail(pat))
              \/ (name # "" /\ fnmatchcase(Tail(name), pat))
    ELSE /\ name # ""
         /\ Ch(pat, 1) \in {"?", Ch(name, 1)}
         /\ fnmatchcase(Tail(name), Tail(pat))

\* fnmatch.filter
fnmatch_filter(names, pat) == SelectSeq(names, LAMBDA x : fnmatchcase(x, pat))

\* the names glob expands a final segment to: hidden ones only for a pattern with a dot
LocalGlobIn(d, base) ==
    LET names == SelectSeq(LocalNames(d),
                           LAMBDA x : Ch(base, 1) = "." \/ Ch(x, 1) # ".")
        hit   == fnmatch_filter(names, base)
    IN  [i \in 1..Len(hit) |-> os_path_join(d, hit[i])]

\* glob.glob of an absolute path with wildcards in its final segment at most
os_glob(p) ==
    IF ~has_magic(p)
    THEN (IF p \in Range(LocalFiles) \cup LocalDirs \cup LocalOther THEN <<p>> ELSE <<>>)
    ELSE IF ParentOf(p) \in LocalDirs THEN LocalGlobIn(ParentOf(p), BaseName(p))
    ELSE <<>>

\* schema_salad's file_uri of an absolute path that needs no quoting
file_uri(p) == "file://" \o p

\* [file_uri(str(self._abs(l))) for l in glob.glob(self._abs(pattern))]
std_glob(b, pattern) ==
    [i \in 1..Len(os_glob(abspath(pattern, b))) |->
        file_uri(abspath(os_glob(abspath(pattern, b))[i], b))]

(***************************************************************************)
(* pycurl and the FTP commands on a control connection.                    *)
(***************************************************************************)
\* "ftp://{}:{}@{}/{}".format(user, passwd, host, path)
CurlUrl(pu) ==
    "ftp://" \o Str(pu.user) \o ":" \o Str(pu.passwd) \o "@" \o Str(pu.host) \o "/" \o pu.path

\* what the transfer of the parsed URL u retrieves: a file, a directory
\* listing (a path ending in '/'), or nothing
CurlFinds(w, u) ==
    /\ u.hostname \in Hosts
    /\ LoginAccepted(u.username, u.password)
    /\ \/ IsRemoteFile(u.hostname, Resolve("/", u.path))
       \/ EndsWith(u.path, "/") /\ IsRemoteDir(w, u.hostname, Resolve("/", u.path))

\* c.perform(), then c.getinfo(c.CONTENT_LENGTH_DOWNLOAD): -1 for a listing
CurlLength(u) ==
    IF IsRemoteFile(u.hostname, Resolve("/", u.path))
    THEN RemoteSizes[Resolve("/", u.path)] ELSE 0 - 1

\* ftp.cwd(dirname) on connection c: '' is sent as '.'
FtpCwdTarget(w, c, dirname) ==
    Resolve(w.conns[c].cwd, IF dirname = "" THEN "." ELSE dirname)

FtpCwdOk(w, c, dirname, f) ==
    ~Failing(w, f) /\ IsRemoteDir(w, w.conns[c].host, FtpCwdTarget(w, c, dirname))

FtpCwd(w, c, dirname) == [Tick(w) EXCEPT !.conns[c].cwd = FtpCwdTarget(w, c, dirname)]

\* the entries of directory d of host h: the files, then the directories
\* in creation order
RemoteEntries(w, h, d) ==
    LET files == SelectSeq(RemoteFiles, LAMBDA p : ParentOf(p) = d)
        dirs  == SelectSeq(w.rdirs,
                           LAMBDA e : e.host = h /\ e.path # "/" /\ ParentOf(e.path) = d)
    IN  [i \in 1..(Len(files) + Len(dirs)) |->
            BaseName(IF i <= Len(files) THEN files[i] ELSE dirs[i - Len(files)].path)]

\* ftp.nlst(path): the server names each entry with the argument as prefix
FtpNlst(w, c, path) ==
    LET names == RemoteEntries(w, w.conns[c].host, Resolve(w.conns[c].cwd, path))
    IN  [i \in 1..Len(names) |->
            IF path = "" THEN names[i]
            ELSE IF EndsWith(path, "/") THEN path \o names[i]
            ELSE path \o "/" \o names[i]]

FtpNlstOk(w, c, path, f) ==
    ~Failing(w, f) /\ IsRemoteDir(w, w.conns[c].host, Resolve(w.conns[c].cwd, path))

\* ftp.mkd(dirname): the parent is a directory and the name is free
FtpMkdOk(w, c, dirname, f) ==
    LET t == Resolve(w.conns[c].cwd, dirname)
    IN  /\ ~Failing(w, f)
        /\ IsRemoteDir(w, w.conns[c].host, ParentOf(t))
        /\ ~IsRemoteDir(w, w.conns[c].host, t)
        /\ ~IsRemoteFile(w.conns[c].host, t)

FtpMkd(w, c, dirname) ==
    [Tick(w) EXCEPT !.rdirs = Append(@, [host |-> w.conns[c].host,
                                         path |-> Resolve(w.conns[c].cwd, dirname)])]

(***************************************************************************)
(* FtpFsAccess: size, isfile, isdir, exists, listdir, join.  b is          *)
(* self.basedir and n self.netrc.                                          *)
(***************************************************************************)
\* lines 262-274: the transfer, and os.stat when it raises
SizePerform(w, b, fn, u, f) ==
    IF ~Failing(w, f) /\ CurlFinds(w, u)
    THEN Ret([Tick(w) EXCEPT !.xfer = @ + 1], CurlLength(u), NoExc)
    ELSE std_size([Tick(w) EXCEPT !.xfer = @ + 1], b, fn)

size(w, b, n, fn, f) ==
    SizePerform(w, b, fn, urlparse(CurlUrl(_parse_url(n, w.cache, fn))), f)

IsFileSized(s) == Ret(s.w, s.exc = NoExc, NoExc)

IsFileConnected(c, b, n, fn, f) ==
    IF c.exc # NoExc THEN Ret(c.w, FALSE, c.exc)
    ELSE IF c.r # 0 THEN IsFileSized(size(c.w, b, n, fn, f))
    ELSE Ret(c.w, std_isfile(b, fn), NoExc)

isfile(w, b, n, fn, f) == IsFileConnected(_connect(w, n, fn, f), b, n, fn, f)

\* line 210: ftp.cwd(cwd)
IsDirBack(w, c, cwd, f) ==
    IF FtpCwdOk(w, c, cwd, f) THEN Ret(FtpCwd(w, c, cwd), TRUE, NoExc)
    ELSE Ret(Tick(w), FALSE, NoExc)

\* line 209: ftp.cwd(urlparse(fn).path)
IsDirInto(w, c, cwd, path, f) ==
    IF FtpCwdOk(w, c, path, f) THEN IsDirBack(FtpCwd(w, c, path), c, cwd, f)
    ELSE Ret(Tick(w), FALSE, NoExc)

\* line 208: cwd = ftp.pwd()
IsDirPwd(w, c, path, f) ==
    IF ~Failing(w, f) THEN IsDirInto(Tick(w), c, w.conns[c].cwd, path, f)
    ELSE IF f.empty THEN IsDirInto(Tick(w), c, "", path, f)
    ELSE Ret(Tick(w), FALSE, NoExc)

IsDirConnected(c, b, fn, f) ==
    IF c.exc # NoExc THEN Ret(c.w, FALSE, c.exc)
    ELSE IF c.r # 0 THEN IsDirPwd(c.w, c.r, urlparse(fn).path, f)
    ELSE Ret(c.w, std_isdir(b, fn), NoExc)

isdir(w, b, n, fn, f) == IsDirConnected(_connect(w, n, fn, f), b, fn, f)

ExistsFile(r, b, n, fn, f) ==
    IF r.exc # NoExc \/ r.r THEN r ELSE isdir(r.w, b, n, fn, f)

exists(w, b, n, fn, f) ==
    IF ~StartsWith(b, "ftp:") THEN Ret(w, std_exists(b, fn), NoExc)
    ELSE ExistsFile(isfile(w, b, n, fn, f), b, n, fn, f)

\* lines 234-239: each item of ftp.nlst(path) as a URL
ListTemplate(pu, items) ==
    [i \in 1..Len(items) |->
        IF pu.user # "anonymous"
        THEN "ftp://" \o Str(pu.user) \o ":" \o Str(pu.passwd) \o "@"
             \o Str(pu.host) \o "/" \o items[i]
        ELSE "ftp://" \o Str(pu.host) \o "/" \o items[i]]

ListNlst(w, c, pu, f) ==
    IF FtpNlstOk(w, c, pu.path, f)
    THEN Ret(Tick(w), ListTemplate(pu, FtpNlst(w, c, pu.path)), NoExc)
    ELSE Ret(Tick(w), <<>>, AllErrors)

ListConnected(c, b, n, fn, f) ==
    IF c.exc # NoExc THEN Ret(c.w, <<>>, c.exc)
    ELSE IF c.r # 0 THEN ListNlst(c.w, c.r, _parse_url(n, c.w.cache, fn), f)
    ELSE std_listdir(c.w, b, fn)

listdir(w, b, n, fn, f) ==
    IF fn = None THEN std_listdir(w, b, fn)
    ELSE ListConnected(_connect(w, n, fn, f), b, n, fn, f)

\* join(path, extra_path)
join(path, extra) ==
    IF StartsWith(path, "ftp:")
    THEN (IF StartsWith(extra, "ftp:/") THEN extra ELSE path \o "/" \o extra)
    ELSE os_path_join(path, extra)

(***************************************************************************)
(* The glob engine.                                                        *)
(***************************************************************************)
ValueError == "ValueError"

\* lines 121-127: [basename] or []
Glob0Ret(r, basename) ==
    IF r.exc # NoExc THEN Ret(r.w, <<>>, r.exc)
    ELSE Ret(r.w, IF r.r THEN <<basename>> ELSE <<>>, NoExc)

_glob0(w, b, n, basename, basepath, f) ==
    IF basename = "" THEN Glob0Ret(isdir(w, b, n, basepath, f), basename)
    ELSE Glob0Ret(isfile(w, b, n, join(basepath, basename), f), basename)

\* w.log collects, for each directory _glob1 expands a wildcard segment in,
\* whether its listing raised and what the directory contributed
Listed(w, basepath, pattern, raised, r) ==
    [w EXCEPT !.log = Append(@, [dir |-> basepath, pattern |-> pattern,
                                 raised |-> raised, r |-> r])]

\* lines 134-136: the hidden names dropped, then fnmatch.filter
Glob1Filter(names, pattern) ==
    fnmatch_filter(IF Ch(pattern, 1) # "."
                   THEN SelectSeq(names, LAMBDA x : Ch(x, 1) # ".")
                   ELSE names,
                   pattern)

\* _glob1 without its except clause: the listing's error leaves _glob1
Glob1Listed_propagating(l, pattern, basepath) ==
    IF l.exc # NoExc THEN Ret(Listed(l.w, basepath, pattern, TRUE, <<>>), <<>>, l.exc)
    ELSE Ret(Listed(l.w, basepath, pattern, FALSE, Glob1Filter(l.r, pattern)),
             Glob1Filter(l.r, pattern), NoExc)

\* lines 130-133: a listing that raises one of ftplib.all_errors gives []
Glob1Listed(l, pattern, basepath) ==
    IF l.exc = AllErrors THEN Ret(Listed(l.w, basepath, pattern, TRUE, <<>>), <<>>, NoExc)
    ELSE IF l.exc # NoExc THEN Ret(l.w, <<>>, l.exc)
    ELSE Ret(Listed(l.w, basepath, pattern, FALSE, Glob1Filter(l.r, pattern)),
             Glob1Filter(l.r, pattern), NoExc)

_glob1(w, b, n, pattern, basepath, f) ==
    Glob1Listed(listdir(w, b, n, basepath, f), pattern, basepath)

\* lines 143-149: a pattern without wildcards
GlobOne(r, pattern) ==
    IF r.exc # NoExc THEN Ret(r.w, <<>>, r.exc)
    ELSE Ret(r.w, IF r.r THEN <<pattern>> ELSE <<>>, NoExc)

RECURSIVE _glob(_, _, _, _, _)
RECURSIVE GlobLoop(_, _, _, _, _, _, _, _)

\* line 160: results.extend(glob_in_dir(basename, dirname))
GlobExtend(g, b, n, basename, dirs, i, results, f) ==
    IF g.exc # NoExc THEN Ret(g.w, <<>>, g.exc)
    ELSE GlobLoop(g.w, b, n, basename, dirs, i + 1, results \o g.r, f)

\* lines 154-161: the loop over the directories the dirname matched
GlobLoop(w, b, n, basename, dirs, i, results, f) ==
    IF i > Len(dirs) THEN Ret(w, results, NoExc)
    ELSE GlobExtend(IF has_magic(basename)
                    THEN _glob1(w, b, n, basename, dirs[i], f)
                    ELSE _glob0(w, b, n, basename, dirs[i], f),
                    b, n, basename, dirs, i, results, f)

\* line 153: dirs = self._glob(dirname)
GlobDirs(d, b, n, basename, f) ==
    IF d.exc # NoExc THEN d
    ELSE GlobLoop(d.w, b, n, basename, d.r, 1, <<>>, f)

\* lines 142-153
GlobParts(w, b, n, pattern, dirname, basename, f) ==
    IF ~has_magic(pattern)
    THEN (IF basename # ""
          THEN GlobOne(exists(w, b, n, pattern, f), pattern)
          ELSE GlobOne(isdir(w, b, n, dirname, f), pattern))
    ELSE IF dirname = "" THEN _glob1(w, b, n, basename, None, f)
    ELSE GlobDirs(_glob(w, b, n, dirname, f), b, n, basename, f)

\* line 141: dirname, basename = pattern.rsplit('/', 1)
GlobSplit(w, b, n, pattern, at, f) ==
    IF at = 0 THEN Ret(w, <<>>, ValueError)
    ELSE GlobParts(w, b, n, pattern, SubSeq(pattern, 1, at - 1),
                   SubSeq(pattern, at + 1, Len(pattern)), f)

\* lines 139-140
GlobStrip(pattern) ==
    IF EndsWith(pattern, "/.") THEN SubSeq(pattern, 1, Len(pattern) - 1) ELSE pattern

_glob(w, b, n, pattern, f) ==
    GlobSplit(w, b, n, GlobStrip(pattern), RFind(GlobStrip(pattern), "/"), f)

glob(w, b, n, pattern, f) ==
    IF ~StartsWith(b, "ftp:") THEN Ret(w, std_glob(b, pattern), NoExc)
    ELSE _glob(w, b, n, pattern, f)

(***************************************************************************)
(* mkdir.  w.log collects the directories the ftp.mkd calls name.          *)
(***************************************************************************)
AttributeError == "AttributeError"

\* ftp.mkd(dirname), logged
MkdTry(w, c, dirname, f) ==
    [(IF FtpMkdOk(w, c, dirname, f) THEN FtpMkd(w, c, dirname) ELSE Tick(w))
        EXCEPT !.log = Append(@, Resolve(w.conns[c].cwd, dirname))]

\* lines 223-228
RECURSIVE MkdirLoop(_, _, _, _, _)
MkdirLoop(w, c, dirs, i, f) ==
    IF i > Len(dirs) THEN Ret(w, None, NoExc)
    ELSE IF c = 0 THEN Ret(w, None, AttributeError)
    ELSE MkdirLoop(MkdTry(w, c, JoinSlash(SubSeq(dirs, 1, i)) \o "/", f),
                   c, dirs, i + 1, f)

\* lines 220-221
MkdirOnce(w, c, path, f) ==
    IF c = 0 THEN Ret(w, None, AttributeError)
    ELSE IF FtpMkdOk(w, c, path, f) THEN Ret(MkdTry(w, c, path, f), path, NoExc)
    ELSE Ret(MkdTry(w, c, path, f), None, AllErrors)

MkdirConnected(c, path, recursive, f) ==
    (IF c.exc # NoExc THEN Ret(c.w, None, c.exc)
     ELSE IF ~recursive THEN MkdirOnce(c.w, c.r, path, f)
     ELSE MkdirLoop(c.w, c.r, Segments(path), 1, f))
    @@ [ftp |-> c.r]

mkdir(w, n, url, recursive, f) ==
    MkdirConnected(_connect(w, n, url, f), urlparse(url).path, recursive, f)

(***************************************************************************)
(* open and use_and_delete.  A temporary file is named by a number; the    *)
(* result r of open is the name of the temporary file the returned handle  *)
(* will read and delete, LocalHandle for a handle on a local file, or      *)
(* NoHandle.                                                               *)
(***************************************************************************)
NoHandle == 0

\* line 187
Unsupported == "Exception: Write mode FTP not implemented"

\* what c.perform() raises
\* 'r' in mode
Contains(s, ch) == \E i \in 1..Len(s) : Ch(s, i) = ch

\* line 170: NamedTemporaryFile(mode='wb', delete=False) picks an unused name
TempName(w) == CHOOSE t \in 1..(Cardinality(w.tmpfiles) + 1) : t \notin w.tmpfiles

\* lines 171-186: the download into temporary file t; when c.perform()
\* raises, the with block closes the file and the exception leaves open
OpenPerform(w, t, u, f) ==
    IF ~Failing(w, f) /\ CurlFinds(w, u)
    THEN Ret([Tick(w) EXCEPT !.xfer = @ + 1], t, NoExc)
    ELSE Ret([Tick(w) EXCEPT !.xfer = @ + 1], NoHandle, "pycurl.error")

\* lines 167-170
OpenRead(w, n, fn, f) ==
    OpenPerform([w EXCEPT !.tmpfiles = @ \cup {TempName(w)}], TempName(w),
                urlparse(CurlUrl(_parse_url(n, w.cache, fn))), f)

\* StdFsAccess.open: open(self._abs(fn), mode), of a file that exists or of a
\* missing file opened for reading
std_open(w, b, fn, mode) ==
    IF std_isfile(b, fn) THEN Ret(w, (0 - 1), NoExc)
    ELSE Ret(w, NoHandle, AllErrors)

open(w, b, n, fn, mode, f) ==
    IF ~StartsWith(fn, "ftp:") THEN std_open(w, b, fn, mode)
    ELSE IF Contains(mode, "r") THEN OpenRead(w, n, fn, f)
    ELSE Ret(w, NoHandle, Unsupported)

\* the world a call starts from
World == [cache |-> cache, conns |-> conns, rdirs |-> rdirs, tmpfiles |-> tmpfiles,
          k |-> 0, xfer |-> 0, log |-> <<>>]

\* the call's effect on the adapter, the servers and the temporary files
Effects(w) ==
    /\ Len(w.conns) <= MaxConns
    /\ cache' = w.cache
    /\ conns' = w.conns
    /\ rdirs' = w.rdirs
    /\ tmpfiles' = w.tmpfiles
    /\ UNCHANGED <<basedir, netrc>>

\* a call made by the one caller, which returns no handle
Commit(w) == Effects(w) /\ UNCHANGED <<handles, threads>>

(***************************************************************************)
(* Inputs.                                                                 *)
(***************************************************************************)
NetrcFiles == {{}, {[host |-> "h1", login |-> "nu", password |-> "np"]}}

ConnectUrls ==
    {"ftp://h1/d", "ftp://u1:p1@h1/d", "ftp://u1@h1/d", "ftp://anonymous@h1/d",
     "ftp://h2/d", "ftp://u1:zz@h2/d", "http://h1/d", "/tmp/x"}

AbsPaths ==
    {"x", "x/y", "a b", ".", "/tmp/x", "/tmp/a%20b", "/", "file:///tmp/x",
     "file:///tmp/a%20b", "file:///tmp/a%2520b", "file:///",
     "ftp://h1/d/a.txt", "ftp://u1:p1@h1/d", "http://h1/d", "http://h1/a%20b",
     "/a:b", "a:b", "x/", "//h1/x"}

InitialRemoteDirs ==
    [i \in 1..(2 * Len(InitialDirs)) |->
        [host |-> IF i <= Len(InitialDirs) THEN "h1" ELSE "h2",
         path |-> InitialDirs[((i - 1) % Len(InitialDirs)) + 1]]]

\* the adapter after __init__(basedir), with no cache handed in
InitWith(dirs, files) ==
    /\ basedir \in dirs
    /\ netrc \in files
    /\ cache = <<>>
    /\ conns = <<>>
    /\ rdirs = InitialRemoteDirs
    /\ tmpfiles = {}
    /\ handles = {}
    /\ threads = <<>>
    /\ last = [op |-> "init"]

(***************************************************************************)
(* The operations.                                                         *)
(***************************************************************************)
ParseUrl ==
    \E url \in ConnectUrls :
        /\ last' = [op |-> "_parse_url", url |-> url, r |-> _parse_url(netrc, cache, url)]
        /\ UNCHANGED <<basedir, netrc, cache, conns, rdirs, tmpfiles, handles, threads>>

Connect ==
    \E url \in ConnectUrls, f \in FaultsUpTo(3) :
        LET out == _connect(World, netrc, url, f)
        IN  /\ f.empty => f.at = 1
            /\ Commit(out.w)
            /\ last' = [op |-> "_connect", url |-> url, r |-> out.r, exc |-> out.exc,
                        probe |-> out.probe, k |-> out.w.k,
                        key |-> _parse_url(netrc, cache, url)]

Abs ==
    \E p \in AbsPaths :
        /\ last' = [op |-> "_abs", p |-> p, r |-> abspath(p, basedir)]
        /\ UNCHANGED <<basedir, netrc, cache, conns, rdirs, tmpfiles, handles, threads>>

ProbePaths ==
    {"ftp://h1/d", "ftp://h1/d/a.txt", "ftp://h1/zz",
     "/tmp/x", "/tmp", "/tmp/zz"}

Exists ==
    \E fn \in ProbePaths, f \in Raising(MaxFault) :
        LET out == exists(World, basedir, netrc, fn, f)
        IN  Commit(out.w) /\ last' = Called("exists", fn, out, f)

IsFile ==
    \E fn \in ProbePaths, f \in Raising(2) :
        LET out == isfile(World, basedir, netrc, fn, f)
        IN  Commit(out.w) /\ last' = Called("isfile", fn, out, f)

IsDir ==
    \E fn \in ProbePaths, f \in Raising(MaxFault) :
        LET out == isdir(World, basedir, netrc, fn, f)
        IN  Commit(out.w) /\ last' = Called("isdir", fn, out, f)

Size ==
    \E fn \in ProbePaths, f \in Raising(1) :
        LET out == size(World, basedir, netrc, fn, f)
        IN  Commit(out.w) /\ last' = Called("size", fn, out, f)

ListDir ==
    \E fn \in ProbePaths, f \in Raising(2) :
        LET out == listdir(World, basedir, netrc, fn, f)
        IN  Commit(out.w) /\ last' = Called("listdir", fn, out, f)

GlobLocal ==
    \E pattern \in {"/tmp/x", "/tmp/zz", "/tmp/*", "x"} :
        LET out == glob(World, basedir, netrc, pattern, [at |-> 0, empty |-> FALSE])
        IN  Commit(out.w)
            /\ last' = Called("glob", pattern, out, [at |-> 0, empty |-> FALSE])

RemotePatterns ==
    {"ftp://h1/d/a.txt", "ftp://h1/d/zz", "ftp://h1/d/", "ftp://h1/d/.", "ftp://h1/zz/",
     "ftp://h1/d/*.txt", "ftp://h1/d/.*", "ftp://h1/d/*", "ftp://h1/d/?.txt",
     "ftp://h1/*/a.txt", "ftp://h1/*/", "ftp://h1/zz/*", "x"}

Glob ==
    \E pattern \in RemotePatterns, f \in Raising(2) :
        LET out == glob(World, basedir, netrc, pattern, f)
        IN  Commit(out.w) /\ last' = Called("glob", pattern, out, f)

Mkdir ==
    \E url \in {"ftp://h1/d/n", "ftp://h2/d/n", "/tmp/n"},
       recursive \in BOOLEAN, f \in Raising(MaxFault) :
        LET out == mkdir(World, netrc, url, recursive, f)
        IN  /\ Len(out.w.rdirs) <= Len(InitialRemoteDirs) + MaxDirs
            /\ Commit(out.w)
            /\ last' = Called("mkdir", url, out, f)
                       @@ [recursive |-> recursive, ftp |-> out.ftp, log |-> out.w.log]

IsDirRemote ==
    \E fn \in {"ftp://h1/d", "ftp://h1/zz"}, f \in Raising(MaxFault) :
        LET out == isdir(World, basedir, netrc, fn, f)
        IN  Commit(out.w) /\ last' = Called("isdir", fn, out, f)

\* glob(pattern), any one of its network operations failing
GlobListing ==
    \E pattern \in {"ftp://h1/*/*.txt", "ftp://h1/d/*.txt", "ftp://h1/zz/*.txt"},
       f \in Raising(MaxDeep) :
        LET out == glob(World, basedir, netrc, pattern, f)
        IN  /\ Commit(out.w)
            /\ last' = Called("glob", pattern, out, f) @@ [log |-> out.w.log]

\* open(fn, mode); the handle it returns is a use_and_delete generator that
\* has not run yet
Open ==
    \E fn \in {"ftp://h1/d/a.txt", "ftp://h1/zz", "/tmp/x"},
       mode \in {"r", "rb", "r+", "w", "wb", "a"}, f \in Raising(1) :
        LET out == open(World, basedir, netrc, fn, mode, f)
        IN  /\ Cardinality(out.w.tmpfiles) <= MaxTmp
            /\ Effects(out.w)
            /\ handles' = IF out.r > NoHandle
                           THEN handles \cup {[file |-> out.r, mode |-> mode,
                                                entered |-> FALSE]}
                           ELSE handles
            /\ last' = Called("open", fn, out, f) @@ [mode |-> mode]
            /\ UNCHANGED threads

\* the caller enters the handle's context: line 32 opens the temporary file,
\* and when that raises the finally clause of line 35 unlinks it
Enter ==
    \E h \in handles, ok \in BOOLEAN :
        /\ ~h.entered
        /\ handles' = IF ok THEN (handles \ {h}) \cup {[h EXCEPT !.entered = TRUE]}
                             ELSE handles \ {h}
        /\ tmpfiles' = IF ok THEN tmpfiles ELSE tmpfiles \ {h.file}
        /\ last' = [op |-> "enter", file |-> h.file,
                    exc |-> IF ok THEN NoExc ELSE AllErrors]
        /\ UNCHANGED <<basedir, netrc, cache, conns, rdirs, threads>>

\* the caller's block ends, normally or by raising: line 32 closes the file
\* and line 35 unlinks it
Leave ==
    \E h \in handles, raised \in BOOLEAN :
        /\ h.entered
        /\ handles' = handles \ {h}
        /\ tmpfiles' = tmpfiles \ {h.file}
        /\ last' = [op |-> "leave", file |-> h.file,
                    exc |-> IF raised THEN "caller" ELSE NoExc]
        /\ UNCHANGED <<basedir, netrc, cache, conns, rdirs, threads>>

(***************************************************************************)
(* Threads sharing the adapter.  Each thread runs isdir(fn) one statement  *)
(* at a time: pc is the statement it is about to run, ftp the handle of    *)
(* line 205, cwd the local variable of line 208.  No command fails.        *)
(***************************************************************************)
\* a thread calls isdir(fn)
Start ==
    \E fn \in {"ftp://h1/d", "ftp://h1/e", "ftp://h1/zz"} :
        /\ Len(threads) < MaxThreads
        /\ threads' = Append(threads, [pc |-> "connect", fn |-> fn, ftp |-> 0,
                                       cwd |-> "", r |-> FALSE])
        /\ last' = [op |-> "isdir", thread |-> Len(threads) + 1]
        /\ UNCHANGED <<basedir, netrc, cache, conns, rdirs, tmpfiles, handles>>

\* another thread is between its change into the target and its change back
\* on the connection of thread t
MidProbe(ts, t) ==
    \E u \in 1..Len(ts) : u # t /\ ts[u].pc = "back" /\ ts[u].ftp = ts[t].ftp

\* line 208 run under a lock that a probe holds from line 208 to line 210
PwdReady_locked(ts, t) ==
    ts[t].pc = "pwd" /\ ~MidProbe(ts, t)

\* line 208 is the statement thread t runs next; isdir takes no lock
PwdReady(ts, t) ==
    ts[t].pc = "pwd"

\* line 205: ftp = self._connect(fn)
ShareConnect(t) ==
    LET out == _connect(World, netrc, threads[t].fn, NoFault)
    IN  /\ threads[t].pc = "connect"
        /\ Effects(out.w)
        /\ threads' = [threads EXCEPT ![t].ftp = out.r, ![t].pc = "pwd"]
        /\ last' = [op |-> "_connect", thread |-> t]
        /\ UNCHANGED handles

\* line 208: cwd = ftp.pwd()
SharePwd(t) ==
    /\ PwdReady(threads, t)
    /\ threads' = [threads EXCEPT ![t].cwd = conns[threads[t].ftp].cwd,
                                  ![t].pc = "into"]
    /\ last' = [op |-> "pwd", thread |-> t]
    /\ UNCHANGED <<basedir, netrc, cache, conns, rdirs, tmpfiles, handles>>

\* line 209: ftp.cwd(urlparse(fn).path), and line 213 when it raises
ShareInto(t) ==
    \E c \in {threads[t].ftp}, path \in {urlparse(threads[t].fn).path} :
        /\ threads[t].pc = "into"
        /\ IF FtpCwdOk(World, c, path, NoFault)
           THEN /\ conns' = FtpCwd(World, c, path).conns
                /\ threads' = [threads EXCEPT ![t].pc = "back"]
           ELSE /\ conns' = conns
                /\ threads' = [threads EXCEPT ![t].pc = "done", ![t].r = FALSE]
        /\ last' = [op |-> "cwd", thread |-> t]
        /\ UNCHANGED <<basedir, netrc, cache, rdirs, tmpfiles, handles>>

\* lines 210-211: ftp.cwd(cwd), return True
ShareBack(t) ==
    LET c == threads[t].ftp
    IN  /\ threads[t].pc = "back"
        /\ FtpCwdOk(World, c, threads[t].cwd, NoFault)
        /\ conns' = FtpCwd(World, c, threads[t].cwd).conns
        /\ threads' = [threads EXCEPT ![t].pc = "done", ![t].r = TRUE]
        /\ last' = [op |-> "cwd back", thread |-> t]
        /\ UNCHANGED <<basedir, netrc, cache, rdirs, tmpfiles, handles>>

Step ==
    \E t \in 1..Len(threads) :
        \/ ShareConnect(t)
        \/ SharePwd(t)
        \/ ShareInto(t)
        \/ ShareBack(t)

\* the connection manager and the credential resolver
Next ==
    \/ ParseUrl
    \/ Connect

Spec == InitWith({"/tmp"}, NetrcFiles) /\ [][Next]_vars

\* two threads probing directories through one adapter
NextShare ==
    \/ Start
    \/ Step

SpecShare == InitWith({"ftp://h1/d"}, {{}}) /\ [][NextShare]_vars

\* the path normaliser
SpecPath ==
    /\ InitWith({"/", "/tmp", "/tmp/", "file:///tmp", "file:///tmp/d", "ftp://h1/d"}, {{}})
    /\ [][Abs]_vars

\* the probes, on local and on remote paths
NextProbe ==
    \/ Exists
    \/ IsFile
    \/ IsDir
    \/ Size
    \/ ListDir
    \/ GlobLocal

SpecProbe == InitWith({"/tmp", "ftp://h1/d"}, NetrcFiles) /\ [][NextProbe]_vars

\* the glob engine on a remote base directory
SpecGlob == InitWith({"ftp://h1/d"}, NetrcFiles) /\ [][Glob]_vars

\* the expansion of wildcard segments over listings that can fail
SpecListing == InitWith({"ftp://h1/d"}, NetrcFiles) /\ [][GlobListing]_vars

\* read-mode access through temporary files
NextOpen ==
    \/ Open
    \/ Enter
    \/ Leave

SpecOpen == InitWith({"ftp://h1/d"}, NetrcFiles) /\ [][NextOpen]_vars

\* directory creation, with the probe that moves the working directory
NextMkdir ==
    \/ Mkdir
    \/ IsDirRemote

SpecMkdir == InitWith({"ftp://h1/d"}, {{}}) /\ [][NextMkdir]_vars

(***************************************************************************)
(* The claims.                                                             *)
(***************************************************************************)
HostCached(c, host) == \E i \in 1..Len(c) : c[i].host = host

\* C1: a _connect call whose key is already cached returns the cached
\* connection without opening one when the liveness probe succeeds; when the
\* probe fails, the call opens exactly one new connection, stores it under
\* the same key in place of the stale one and returns it.
C1_ConnectionReuse ==
    [][(last'.op = "_connect"
          /\ urlparse(last'.url).scheme = "ftp"
          /\ CacheIdx(cache, last'.key.host, last'.key.user, last'.key.passwd) # 0)
       => LET at == CacheIdx(cache, last'.key.host, last'.key.user, last'.key.passwd)
          IN  /\ last'.probe = "ok"
                 => /\ last'.exc = NoExc
                    /\ last'.r = cache[at].ftp
                    /\ conns' = conns
                    /\ cache' = cache
              /\ last'.probe # "ok"
                 => /\ last'.exc = NoExc
                    /\ Len(conns') = Len(conns) + 1
                    /\ last'.r = Len(conns')
                    /\ Len(cache') = Len(cache)
                    /\ cache'[at].ftp = Len(conns')]_vars

\* C2: for every path p and every adapter state, exists(p) returns the same
\* boolean as isfile(p) OR isdir(p): an exists call that met no fault returned
\* what isfile and isdir, called next on the same path, give.
C2_ExistsIsFileOrDir ==
    (last.op = "exists" /\ ~last.faulty /\ last.exc = NoExc)
    => last.r = (isfile(World, basedir, netrc, last.fn, NoFault).r
                 \/ isdir(World, basedir, netrc, last.fn, NoFault).r)

\* the local filesystem implementation of an operation
Local(op, w, b, fn) ==
    CASE op = "exists"  -> Ret(w, std_exists(b, fn), NoExc)
      [] op = "isfile"  -> Ret(w, std_isfile(b, fn), NoExc)
      [] op = "isdir"   -> Ret(w, std_isdir(b, fn), NoExc)
      [] op = "size"    -> std_size(w, b, fn)
      [] op = "listdir" -> std_listdir(w, b, fn)
      [] op = "glob"    -> Ret(w, std_glob(b, fn), NoExc)

\* C3: pass-through: on a path that is not ftp-scheme-qualified, each adapter
\* operation gives the result of the local filesystem implementation and
\* performs no remote action (no network operation, so no connection opened
\* and no cache change, and no transfer attempted), whatever the basedir.
C3_PassThrough ==
    (last.op \in {"exists", "isfile", "isdir", "size", "listdir", "glob"}
       /\ urlparse(last.fn).scheme # "ftp")
    => /\ last.exc = Local(last.op, World, basedir, last.fn).exc
       /\ last.r = Local(last.op, World, basedir, last.fn).r
       /\ last.k = 0
       /\ last.xfer = 0

\* the URL embeds a user name and a password
Embeds(url) == ~Falsy(urlparse(url).username) /\ urlparse(url).password # None

\* C4: whatever the credential file and the cache hold, _parse_url of a URL
\* that embeds a user name and a password returns exactly those two.
C4_EmbeddedCredentialsWin ==
    \A url \in ConnectUrls :
        Embeds(url)
        => /\ _parse_url(netrc, cache, url).user = urlparse(url).username
           /\ _parse_url(netrc, cache, url).passwd = urlparse(url).password

\* _parse_url ran on a URL with embedded credentials while the credential file
\* and the cache both held other credentials for its host
C4_Witness ==
    /\ last.op = "_parse_url"
    /\ Embeds(last.url)
    /\ authenticators(netrc, last.r.host).found
    /\ \E i \in 1..Len(cache) :
           cache[i].host = last.r.host /\ cache[i].user # last.r.user
    /\ last.r.user = "u1"
    /\ last.r.passwd = "p1"

\* C5: a URL without embedded credentials, whose host has no credential-file
\* entry and no key in the cache, resolves to "anonymous" / "anonymous@".
C5_AnonymousFallback ==
    \A url \in ConnectUrls :
        (/\ urlparse(url).username = None
         /\ urlparse(url).password = None
         /\ ~authenticators(netrc, urlparse(url).hostname).found
         /\ ~HostCached(cache, urlparse(url).hostname))
        => /\ _parse_url(netrc, cache, url).user = "anonymous"
           /\ _parse_url(netrc, cache, url).passwd = "anonymous@"

\* _parse_url fell back to anonymous for a host while the cache and the
\* credential file held credentials of another host
C5_Witness ==
    /\ last.op = "_parse_url"
    /\ urlparse(last.url).scheme = "ftp"
    /\ urlparse(last.url).username = None
    /\ ~HostCached(cache, last.r.host)
    /\ ~authenticators(netrc, last.r.host).found
    /\ cache # <<>>
    /\ netrc # {}
    /\ last.r.user = "anonymous"
    /\ last.r.passwd = "anonymous@"

\* C6: abspath is idempotent: abspath(abspath(p, b), b) = abspath(p, b).
C6_AbspathIdempotent ==
    last.op = "_abs" => abspath(last.r, basedir) = last.r

\* the pattern's part before its last separator
DirName(pattern) == SubSeq(pattern, 1, RFind(pattern, "/") - 1)

\* C7: with an ftp basedir, glob on a pattern without wildcard characters
\* returns [pattern] if and only if exists(pattern) holds (final segment
\* non-empty) or isdir(dirname) holds (pattern ends in a separator), and the
\* empty list otherwise.
C7_LiteralGlob ==
    (last.op = "glob" /\ StartsWith(basedir, "ftp:")
       /\ ~has_magic(last.fn) /\ ~last.faulty)
    => /\ last.exc = NoExc
       /\ last.r = IF (IF EndsWith(last.fn, "/")
                       THEN isdir(World, basedir, netrc, DirName(last.fn), NoFault).r
                       ELSE exists(World, basedir, netrc, last.fn, NoFault).r)
                   THEN <<last.fn>>
                   ELSE <<>>

\* C8: a wildcard final segment expanded against a remote directory leaves out
\* the entries whose name starts with '.' unless the segment itself starts
\* with '.': *.txt over {a.txt, b.txt, .hidden} yields a.txt and b.txt, and
\* .* yields .hidden.
C8_HiddenEntries ==
    (last.op = "glob" /\ urlparse(last.fn).scheme = "ftp"
       /\ ~last.faulty /\ last.exc = NoExc
       /\ has_magic(BaseName(last.fn)) /\ ~has_magic(DirName(last.fn)))
    => [i \in 1..Len(last.r) |-> BaseName(last.r[i])]
       = Glob1Filter(RemoteEntries(World, urlparse(last.fn).hostname,
                                   urlparse(DirName(last.fn)).path),
                     BaseName(last.fn))

\* a URL with the doubled separator after its host reduced to one
Squash(x) ==
    IF StartsWith(urlparse(x).path, "//")
    THEN "ftp://" \o urlparse(x).hostname \o Tail(urlparse(x).path)
    ELSE x

\* C9: every element glob returns on a remote pattern is an absolute path that
\* matches the pattern, also when a wildcard directory part is followed by a
\* literal or by an empty final segment.
C9_AbsoluteMatches ==
    (last.op = "glob" /\ urlparse(last.fn).scheme = "ftp" /\ last.exc = NoExc)
    => \A i \in 1..Len(last.r) :
           /\ StartsWith(last.r[i], "ftp://")
           /\ fnmatchcase(Squash(last.r[i]), GlobStrip(last.fn))

\* the successive prefix directories of a path, shortest first
Prefixes(path) ==
    [i \in 1..Len(Segments(path)) |-> "/" \o JoinSlash(SubSeq(Segments(path), 1, i))]

\* C10: recursive mkdir on a remote URL attempts to create each successive
\* prefix directory of the path, shortest first, ignores every creation
\* failure and returns without error; called again on the same URL it
\* produces no error and leaves the remote directory tree as it is.
C10_RecursiveMkdir ==
    (last.op = "mkdir" /\ last.recursive /\ ~last.faulty
       /\ urlparse(last.fn).scheme = "ftp")
    => /\ last.exc = NoExc
       /\ last.log = Prefixes(urlparse(last.fn).path)
       /\ mkdir(World, netrc, last.fn, TRUE, NoFault).exc = NoExc
       /\ mkdir(World, netrc, last.fn, TRUE, NoFault).w.rdirs = rdirs

\* C11: open of a remote path in a mode that requests writing always fails
\* with the unsupported-operation error: it returns no handle and starts no
\* download.
C11_WriteModeFails ==
    (/\ last.op = "open"
     /\ StartsWith(last.fn, "ftp:")
     /\ \E ch \in {"w", "a", "x", "+"} : Contains(last.mode, ch))
    => /\ last.exc = Unsupported
       /\ last.r = NoHandle
       /\ last.xfer = 0

\* C12: the probes never surface errors: on a remote path isfile, isdir and
\* exists return true or false; a transport failure during the probe, a
\* failure to connect or log in and a failed liveness check included, gives
\* false and is not propagated.
C12_ProbesNeverRaise ==
    (last.op \in {"isfile", "isdir", "exists"} /\ urlparse(last.fn).scheme = "ftp")
    => /\ last.exc = NoExc
       /\ last.r \in BOOLEAN

\* C13: every temporary file a read-mode open of a remote path creates is
\* deleted on every exit path, the failure of the download included: a
\* temporary file that exists is held by a handle whose exit will delete it,
\* so none is left when the caller is done with its handles.
C13_TransientCleanup ==
    \A t \in tmpfiles : \E h \in handles : h.file = t

\* the listings of the directories the final segment of pattern fn was
\* expanded in
Final(log, fn) == SelectSeq(log, LAMBDA e : e.pattern = BaseName(fn))

RECURSIVE Flatten(_)
Flatten(entries) ==
    IF entries = <<>> THEN <<>> ELSE Head(entries).r \o Flatten(Tail(entries))

\* C14: when the listing of a directory fails during the expansion of a
\* wildcard segment, glob does not raise, that directory contributes no
\* match, and the expansion goes on: the result is the concatenation of what
\* the parent directories contributed, and every directory whose listing
\* did not fail contributed what it contributes in a call without failure.
C14_ListingFailureSwallowed ==
    [][(last'.op = "glob" /\ \E i \in 1..Len(last'.log) : last'.log[i].raised)
       => /\ last'.exc = NoExc
          /\ last'.r = Flatten(Final(last'.log, last'.fn))
          /\ \A i \in 1..Len(last'.log) :
                 IF last'.log[i].raised THEN last'.log[i].r = <<>>
                 ELSE \E j \in 1..Len(glob(World, basedir, netrc, last'.fn, NoFault).w.log) :
                          glob(World, basedir, netrc, last'.fn, NoFault).w.log[j]
                              = last'.log[i]
          /\ (\A i \in 1..Len(last'.log) :
                  last'.log[i].raised => last'.log[i].pattern = BaseName(last'.fn))
             => Len(last'.log) = Len(glob(World, basedir, netrc, last'.fn, NoFault).w.log)]_vars

\* the listing of /d failed in a glob that went on to /e and returned its match
C14_Witness ==
    /\ last.op = "glob"
    /\ last.fn = "ftp://h1/*/*.txt"
    /\ last.exc = NoExc
    /\ last.faulty
    /\ \E i \in 1..Len(last.log) :
           last.log[i].raised /\ last.log[i].dir = "ftp://h1/d"
    /\ last.r = <<"ftp://h1//e/a.txt">>

\* C15: whichever resolver supplied the user name (the URL, the credential
\* file, the cache or the anonymous default), _parse_url never returns a
\* non-empty user name together with an absent password: a missing password
\* is replaced by "anonymous@".
C15_DefaultPassword ==
    (last.op = "_parse_url" /\ ~Falsy(last.r.user)) => last.r.passwd # None

\* C16: once a connection for host H is cached, a _connect call on a URL for
\* H without embedded credentials uses the credential-file entry for H when
\* there is one, and otherwise an identity (u, p) cached for H, whose cached
\* connection it probes and, the probe succeeding, returns without opening
\* another; identities cached for other hosts are never used.
C16_CredentialChain ==
    [][(/\ last'.op = "_connect"
        /\ urlparse(last'.url).scheme = "ftp"
        /\ urlparse(last'.url).username = None
        /\ HostCached(cache, urlparse(last'.url).hostname))
       => LET host  == urlparse(last'.url).hostname
              creds == authenticators(netrc, host)
          IN  /\ creds.found
                 => /\ last'.key.user = creds.login
                    /\ last'.key.passwd = creds.password
              /\ ~creds.found
                 => \E i \in {j \in 1..Len(cache) : cache[j].host = host} :
                        /\ last'.key.user = cache[i].user
                        /\ last'.key.passwd = cache[i].passwd
                        /\ last'.probe # "none"
                        /\ last'.probe = "ok"
                           => last'.r = cache[i].ftp /\ conns' = conns]_vars

\* C17: an isdir call, whatever it returns and whichever of its remote
\* commands failed, leaves the remote working directory of every connection
\* as it was before the call (a connection the call opened is in the
\* directory its login gave it).
C17_IsDirRestoresCwd ==
    [][last'.op = "isdir"
       => \A i \in 1..Len(conns') :
              conns'[i].cwd = IF i <= Len(conns) THEN conns[i].cwd
                              ELSE LoginDir(conns'[i].host)]_vars

\* C19: a _connect call whose ftp.connect or ftp.login fails (no connection
\* was opened, or the one opened is not logged in) raises the error to its
\* caller, returns no handle, has tried once (at most one connection opened,
\* one connect and one login sent after the probe, if any) and leaves the
\* cache as it was; and the cache only ever holds authenticated connections.
C19_FailedConnect ==
    [][last'.op = "_connect"
       => /\ \A i \in 1..Len(cache') : conns'[cache'[i].ftp].auth
          /\ (/\ urlparse(last'.url).scheme = "ftp"
              /\ last'.probe \in {"none", "empty"}
              /\ \/ Len(conns') = Len(conns)
                 \/ ~conns'[Len(conns')].auth)
             => /\ last'.exc = AllErrors
                /\ last'.r = 0
                /\ cache' = cache
                /\ Len(conns') <= Len(conns) + 1
                /\ last'.k <= (IF last'.probe = "none" THEN 2 ELSE 3)]_vars

\* a login was refused while the cache held a connection: the connection
\* opened for it is not authenticated and is not in the cache
C19_Witness ==
    /\ last.op = "_connect"
    /\ last.exc = AllErrors
    /\ last.r = 0
    /\ cache # <<>>
    /\ conns # <<>>
    /\ ~conns[Len(conns)].auth
    /\ \A i \in 1..Len(cache) : cache[i].ftp # Len(conns)

\* the entries of the cache stored under the key
KeyEntries(c, key) ==
    {i \in 1..Len(c) :
        c[i].host = key.host /\ c[i].user = key.user /\ c[i].passwd = key.passwd}

\* C20: in every _connect call, a handle returned is either the cached
\* connection whose liveness probe just answered (nothing opened) or a
\* connection opened and logged in during the call; it is the one the cache
\* holds under the key resolved from the URL; a call on a non-ftp URL returns
\* no handle and leaves the cache alone; and every key of the cache stays in
\* the cache, entries being only added or superseded under the same key.
C20_ConnectHandles ==
    [][last'.op = "_connect"
       => /\ urlparse(last'.url).scheme # "ftp"
             => last'.r = 0 /\ cache' = cache /\ conns' = conns
          /\ last'.r # 0
             => /\ \/ /\ last'.probe = "ok"
                      /\ KeyEntries(cache, last'.key) # {}
                      /\ \A i \in KeyEntries(cache, last'.key) : cache[i].ftp = last'.r
                      /\ conns' = conns
                      /\ cache' = cache
                   \/ /\ last'.probe # "ok"
                      /\ Len(conns') = Len(conns) + 1
                      /\ last'.r = Len(conns')
                      /\ conns'[last'.r].auth
                /\ KeyEntries(cache', last'.key) # {}
                /\ \A i \in KeyEntries(cache', last'.key) : cache'[i].ftp = last'.r
          /\ Len(cache') >= Len(cache)
          /\ \A i \in 1..Len(cache) :
                 /\ cache'[i].host = cache[i].host
                 /\ cache'[i].user = cache[i].user
                 /\ cache'[i].passwd = cache[i].passwd
                 /\ cache'[i].ftp # cache[i].ftp => i \in KeyEntries(cache, last'.key)]_vars

\* a stale entry was superseded: the probe of the cached connection answered
\* with an empty reply, a connection was opened and stored under the same key
C20_Witness ==
    /\ last.op = "_connect"
    /\ last.probe = "empty"
    /\ last.exc = NoExc
    /\ last.r = 2
    /\ Len(cache) = 1
    /\ cache[1].ftp = 2
    /\ conns[2].auth

\* the threads have all returned from isdir
AllDone == Len(threads) = MaxThreads /\ \A t \in 1..Len(threads) : threads[t].pc = "done"

\* C18: nothing in the adapter orders the commands of two threads on one
\* connection: while a thread is between its change into the target and its
\* change back, the next remote command of any other thread on the same
\* connection can run; and a working directory that differs, after all the
\* probes returned, from the one the login gave is one that a thread read
\* with pwd while another thread was inside its target.
C18_Unsynchronized ==
    /\ \A t \in 1..Len(threads) :
           MidProbe(threads, t)
           => /\ threads[t].pc = "pwd"  => ENABLED SharePwd(t)
              /\ threads[t].pc = "into" => ENABLED ShareInto(t)
              /\ threads[t].pc = "back" => ENABLED ShareBack(t)
    /\ AllDone
       => \A i \in 1..Len(conns) :
              conns[i].cwd # LoginDir(conns[i].host)
              => \E t, u \in 1..Len(threads) :
                     /\ t # u
                     /\ threads[t].ftp = i
                     /\ threads[t].cwd = conns[i].cwd
                     /\ threads[t].cwd = urlparse(threads[u].fn).path

\* two isdir probes on one cached connection both returned True, every
\* command having succeeded, and the connection is left in another working
\* directory than before the probes
C18_Witness ==
    /\ AllDone
    /\ Len(conns) = 1
    /\ \A t \in 1..Len(threads) : threads[t].r /\ threads[t].ftp = 1
    /\ conns[1].cwd # LoginDir(conns[1].host)

====
